---- MODULE Spec2Model ----
(***************************************************************************)
(* The interactive playback session of run_extraction_workflow            *)
(* (src/main.py): initialisation of the session from the command line and *)
(* the stored preferences, and the command loop (play, next, prev, tempo, *)
(* hand, exit).  Input lines are sequences of one-character strings, so   *)
(* that strip(), lower(), startswith(), split() and int() are computed as *)
(* Python computes them.                                                   *)
(***************************************************************************)
EXTENDS Integers, Sequences, FiniteSets, TLC

\* Largest number of measures of the corrected score.
MaxMeasures == 3

----------------------------------------------------------------------------
(* Values: Python None / int / str, uniformly typed so that they compare.  *)

None == [t |-> "none", n |-> 0, s |-> ""]
IntV(n) == [t |-> "int", n |-> n, s |-> ""]
StrV(s) == [t |-> "str", n |-> 0, s |-> s]
\* str(n) of an integer n, e.g. the command-line "--tempo 100".
NumStr(n) == [t |-> "numstr", n |-> n, s |-> ""]

\* Python truthiness of a value (None, 0 and "" are false).
Truthy(v) ==
    CASE v.t = "none" -> FALSE
      [] v.t = "int" -> v.n # 0
      [] v.t = "str" -> v.s # ""
      [] OTHER -> TRUE

\* str(v) as used on a stored tempo preference.
PyStr(v) == IF v.t = "int" THEN NumStr(v.n) ELSE v

----------------------------------------------------------------------------
(* Strings as sequences of characters.                                     *)

Digits == <<"0", "1", "2", "3", "4", "5", "6", "7", "8", "9">>

IsSpace(c) == c \in {" ", "\t"}

IsDigit(c) == \E i \in 1..10 : Digits[i] = c

DigitVal(c) == (CHOOSE i \in 1..10 : Digits[i] = c) - 1

\* str.lower() on one character.
UpperCase == <<"A", "B", "C", "D", "E", "F", "G", "H", "I", "J", "K", "L", "M",
               "N", "O", "P", "Q", "R", "S", "T", "U", "V", "W", "X", "Y", "Z">>
LowerCase == <<"a", "b", "c", "d", "e", "f", "g", "h", "i", "j", "k", "l", "m",
               "n", "o", "p", "q", "r", "s", "t", "u", "v", "w", "x", "y", "z">>

LowerChar(c) ==
    IF \E i \in 1..Len(UpperCase) : UpperCase[i] = c
    THEN LowerCase[CHOOSE i \in 1..Len(UpperCase) : UpperCase[i] = c]
    ELSE c

LowerStr(s) == [i \in 1..Len(s) |-> LowerChar(s[i])]

RECURSIVE LStrip(_)
LStrip(s) == IF s # <<>> /\ IsSpace(Head(s)) THEN LStrip(Tail(s)) ELSE s

RECURSIVE RStrip(_)
RStrip(s) ==
    IF s # <<>> /\ IsSpace(s[Len(s)]) THEN RStrip(SubSeq(s, 1, Len(s) - 1)) ELSE s

\* str.strip()
Strip(s) == RStrip(LStrip(s))

\* str.startswith(p)
StartsWith(s, p) == Len(s) >= Len(p) /\ SubSeq(s, 1, Len(p)) = p

\* ch in s
Contains(s, ch) == \E i \in 1..Len(s) : s[i] = ch

\* str.split(): pieces between runs of whitespace, none of them empty.
RECURSIVE SplitWs(_, _, _)
SplitWs(s, cur, acc) ==
    IF s = <<>> THEN (IF cur = <<>> THEN acc ELSE Append(acc, cur))
    ELSE IF IsSpace(Head(s))
         THEN SplitWs(Tail(s), <<>>, IF cur = <<>> THEN acc ELSE Append(acc, cur))
         ELSE SplitWs(Tail(s), Append(cur, Head(s)), acc)

Split(s) == SplitWs(s, <<>>, <<>>)

\* str.split(sep): pieces between separators, empty pieces kept.
RECURSIVE SplitSep(_, _, _, _)
SplitSep(s, sep, cur, acc) ==
    IF s = <<>> THEN Append(acc, cur)
    ELSE IF Head(s) = sep
         THEN SplitSep(Tail(s), sep, <<>>, Append(acc, cur))
         ELSE SplitSep(Tail(s), sep, Append(cur, Head(s)), acc)

SplitOn(s, sep) == SplitSep(s, sep, <<>>, <<>>)

RECURSIVE DigitsVal(_, _)
DigitsVal(s, acc) ==
    IF s = <<>> THEN acc ELSE DigitsVal(Tail(s), 10 * acc + DigitVal(Head(s)))

AllDigits(s) == s # <<>> /\ \A i \in 1..Len(s) : IsDigit(s[i])

\* int(tok) on a token without whitespace: an optional sign, then digits.
\* ok = FALSE stands for the ValueError.  (int() also accepts digit grouping
\* with "_" and non-ASCII digits; the input lines below use neither.)
ParseInt(tok) ==
    IF tok # <<>> /\ Head(tok) \in {"+", "-"}
    THEN IF AllDigits(Tail(tok))
         THEN [ok |-> TRUE,
               val |-> IF Head(tok) = "-" THEN 0 - DigitsVal(Tail(tok), 0)
                       ELSE DigitsVal(Tail(tok), 0)]
         ELSE [ok |-> FALSE, val |-> 0]
    ELSE IF AllDigits(tok) THEN [ok |-> TRUE, val |-> DigitsVal(tok, 0)]
         ELSE [ok |-> FALSE, val |-> 0]

----------------------------------------------------------------------------
(* Input lines.                                                            *)

SP == <<" ">>
EXIT == <<"e", "x", "i", "t">>
PLAY == <<"p", "l", "a", "y">>
NEXT == <<"n", "e", "x", "t">>
PREV == <<"p", "r", "e", "v">>
TEMPO == <<"t", "e", "m", "p", "o">>
HAND == <<"h", "a", "n", "d">>
LEFT == <<"l", "e", "f", "t">>
RIGHT == <<"r", "i", "g", "h", "t">>
BOTH == <<"b", "o", "t", "h">>

PlayLines ==
    { PLAY,                                   \* play
      PLAY \o SP \o <<"2">>,                  \* play 2
      PLAY \o SP \o <<"5">>,                  \* play 5
      PLAY \o SP \o <<"x">>,                  \* play x
      PLAY \o SP \o <<"2", "-", "3">>,        \* play 2-3
      PLAY \o SP \o <<"5", "-", "2">>,        \* play 5-2
      PLAY \o SP \o <<"0", "-", "2">>,        \* play 0-2
      PLAY \o SP \o <<"1", "-", "5">>,        \* play 1-5
      PLAY \o SP \o <<"-", "2">>,             \* play -2
      PLAY \o SP \o <<"1", "-", "2", "-", "3">>,  \* play 1-2-3
      PLAY \o <<"x">> }                       \* playx

NavLines ==
    { NEXT, PREV,
      SP \o <<"N", "E", "X", "T">> \o SP,     \* " NEXT "
      NEXT \o <<"x">> }                       \* nextx

TempoLines ==
    { TEMPO,                                  \* tempo
      TEMPO \o SP \o <<"9", "0">>,            \* tempo 90
      TEMPO \o SP \o <<"-", "5">>,            \* tempo -5
      TEMPO \o SP \o <<"x">>,                 \* tempo x
      TEMPO \o <<"r", "a", "r", "y">> \o SP \o <<"9", "0">> }  \* temporary 90

HandLines ==
    { HAND,                                   \* hand
      HAND \o SP \o LEFT,                     \* hand left
      HAND \o SP \o RIGHT,                    \* hand right
      HAND \o SP \o BOTH,                     \* hand both
      HAND \o SP \o <<"u", "p">>,             \* hand up
      HAND \o <<"l", "e">> }                  \* handle

OtherLines ==
    { EXIT,
      <<"E", "X", "I", "T">> \o SP,           \* "EXIT "
      EXIT \o SP \o <<"x">>,                  \* exit x
      <<>> }                                  \* the empty line

Lines == PlayLines \cup NavLines \cup TempoLines \cup HandLines \cup OtherLines

\* input(...).strip().lower()
Normalize(line) == LowerStr(Strip(line))

----------------------------------------------------------------------------
(* Collaborators of main.py: the renderer and the preference store.       *)

Users == {"default_user", "other"}
PrefKeys == {"default_tempo", "preferred_hand", "tempo", "hand"}

\* player.play(...) either returns or raises.
RenderOutcomes == {"ok", "raise"}

\* library.update_preference(...) either returns or raises.
StoreOutcomes == {"ok", "raise"}

\* library.update_preference(key, value, user_id): upsert of one key of one user.
UpdatePreference(p, key, value, user) == [p EXCEPT ![user][key] = value]

\* library.get_user_preferences(user_id): the user's mapping, missing keys absent.
GetUserPreferences(p, user) == p[user]

----------------------------------------------------------------------------
(* State.                                                                  *)

VARIABLES
    pc,               \* "start", "session", "exited" (break), "crashed" (uncaught exception)
    args_tempo,       \* args.tempo
    args_hand,        \* args.hand
    measures_len,     \* len(corrected_data.get('measures', []))
    prefs,            \* the preference store: user -> key -> value
    current_measure,
    total_measures,
    current_tempo,
    current_hands,
    \* What the last loop iteration did:
    lastLine,         \* the line it read
    msg,              \* the message it printed
    renders,          \* the player.play calls it made
    writes,           \* the library.update_preference calls it made
    before,           \* current_measure, current_tempo, current_hands, prefs when it began
    \* Standard input:
    stdin,            \* the lines it holds, or any lines at all (free)
    nread,            \* how many of its lines input() has returned
    \* The workflow before playback (main.py 255-303):
    file_path,        \* args.file_path
    library,          \* the score store: file -> score, or NoScore
    music_data,
    corrected_data,
    wf_calls,         \* the collaborator calls of this run, in order
    \* Across runs:
    runs,             \* the number of runs started
    extractions,      \* file -> how often extractor.extract was called, and succeeded
    corrections,      \* the correction log
    at_start          \* library, prefs and corrections when this run began

wfvars == <<file_path, library, music_data, corrected_data, wf_calls, runs,
            extractions, corrections, at_start>>

vars == <<pc, args_tempo, args_hand, measures_len, prefs, current_measure,
          total_measures, current_tempo, current_hands, lastLine, msg, renders,
          writes, before, stdin, nread, file_path, library, music_data,
          corrected_data, wf_calls, runs, extractions, corrections, at_start>>

\* Standard input that may hold any line next, or be closed, at any time.
FreeInput == [free |-> TRUE, lines |-> <<>>]
\* Standard input that holds exactly these lines and is then closed.
Script(lines) == [free |-> FALSE, lines |-> lines]

\* args.user_id (the argparse default).
user_id == "default_user"

NoPrefs == [k \in PrefKeys |-> None]

\* The stored preferences of a user who has none yet, of one who has both, and
\* of the other user.
NewUserPrefs == NoPrefs
ReturningUserPrefs ==
    [NoPrefs EXCEPT !["default_tempo"] = IntV(80), !["preferred_hand"] = StrV("right")]
OtherUserPrefs == [NoPrefs EXCEPT !["default_tempo"] = IntV(70)]

\* Scores: the tempo and the number of measures; NoScore is None (or any
\* empty result), which `not music_data` takes for a miss or a failure.
Files == {"a.png", "b.png"}
Score(t, n) == [present |-> TRUE, tempo |-> t, measures |-> n]
NoScore == [present |-> FALSE, tempo |-> 0, measures |-> 0]

RunStart(lib, p, log) == [library |-> lib, prefs |-> p, corrections |-> log]

\* The workflow variables of a run that found its score in the library and
\* left it uncorrected.
LoadedUncorrected ==
    LET sc == Score(120, measures_len)
        lib == [f \in Files |-> IF f = "a.png" THEN sc ELSE NoScore]
    IN /\ file_path = "a.png"
       /\ library = lib
       /\ music_data = sc
       /\ corrected_data = sc
       /\ wf_calls = <<"get_cached_data", "review_and_correct">>
       /\ runs = 1
       /\ extractions = [f \in Files |-> [calls |-> 0, ok |-> 0]]
       /\ corrections = <<>>
       /\ at_start = RunStart(lib, prefs, <<>>)

Snapshot(m, t, h, p) == [measure |-> m, tempo |-> t, hands |-> h, prefs |-> p]

NoLine == <<"-">>

Init ==
    /\ pc = "start"
    /\ args_tempo = None
    /\ args_hand = StrV("both")
    /\ measures_len \in 0..MaxMeasures
    /\ \E mine \in {NewUserPrefs, ReturningUserPrefs} :
           prefs = [u \in Users |-> IF u = user_id THEN mine ELSE OtherUserPrefs]
    /\ current_measure = 0
    /\ total_measures = 0
    /\ current_tempo = None
    /\ current_hands = <<>>
    /\ lastLine = NoLine
    /\ msg = ""
    /\ renders = <<>>
    /\ writes = <<>>
    /\ before = Snapshot(0, None, <<>>, prefs)
    /\ stdin = FreeInput
    /\ nread = 0
    /\ LoadedUncorrected

----------------------------------------------------------------------------
(* Session initialisation (main.py 305-338).                               *)

\* args.tempo after "Use preferred tempo if not overridden" (preceded by the
\* variant that never consults the stored preference).
InitialTempo_ArgsOnly(atempo, p) == atempo
InitialTempo(atempo, p) ==
    IF ~Truthy(atempo) /\ Truthy(p["default_tempo"])
    THEN PyStr(p["default_tempo"]) ELSE atempo

\* args.hand after "Use preferred hand if not specified".
InitialHandArg(ahand, p) ==
    IF ahand = StrV("both") /\ p["preferred_hand"] # StrV("both")
    THEN p["preferred_hand"] ELSE ahand

\* current_hands from args.hand.
InitialHands(h) ==
    IF h = StrV("left") THEN <<"left">>
    ELSE IF h = StrV("right") THEN <<"right">>
    ELSE <<"left", "right">>

\* total_measures, with the fallback for legacy notes (preceded by the variant
\* without the fallback).
TotalMeasures_NoFallback(n) == n
TotalMeasures(n) == IF n = 0 THEN 1 ELSE n

InitPlayback ==
    /\ pc = "start"
    /\ LET p == GetUserPreferences(prefs, user_id)
           t == InitialTempo(args_tempo, p)
           h == InitialHandArg(args_hand, p)
       IN /\ args_tempo' = t
          /\ args_hand' = h
          /\ current_measure' = 1
          /\ total_measures' = TotalMeasures(measures_len)
          /\ current_tempo' = t
          /\ current_hands' = InitialHands(h)
          /\ before' = Snapshot(1, t, InitialHands(h), prefs)
    /\ pc' = "session"
    /\ UNCHANGED <<measures_len, prefs, lastLine, msg, renders, writes, stdin, nread>>
    /\ UNCHANGED wfvars

----------------------------------------------------------------------------
(* The command loop (main.py 340-401).                                     *)

\* The branch of the if/elif chain that a command takes.
Dispatch(cmd) ==
    IF cmd = EXIT THEN "exit"
    ELSE IF StartsWith(cmd, PLAY) THEN "play"
    ELSE IF cmd = NEXT THEN "next"
    ELSE IF cmd = PREV THEN "prev"
    ELSE IF StartsWith(cmd, TEMPO) THEN "tempo"
    ELSE IF StartsWith(cmd, HAND) THEN "hand"
    ELSE "unknown"

\* The lines that take each branch, and their cmd.split().
LinesOf(branch) == {line \in Lines : Dispatch(Normalize(line)) = branch}
ExitLines == LinesOf("exit")
PlayCmdLines == LinesOf("play")
NextLines == LinesOf("next")
PrevLines == LinesOf("prev")
TempoCmdLines == LinesOf("tempo")
HandCmdLines == LinesOf("hand")
UnknownLines == LinesOf("unknown")
Parts == [line \in Lines |-> Split(Normalize(line))]

\* s, e = map(int, rng.split('-')); ok = FALSE stands for any exception.
PlayRange(rng) ==
    LET pieces == SplitOn(rng, "-")
    IN IF Len(pieces) = 2 /\ ParseInt(pieces[1]).ok /\ ParseInt(pieces[2]).ok
       THEN [ok |-> TRUE, s |-> ParseInt(pieces[1]).val, e |-> ParseInt(pieces[2]).val]
       ELSE [ok |-> FALSE, s |-> 0, e |-> 0]

\* The guards of next and prev (each preceded by its off-by-one variant).
CanNext_OffByOne(cur, total) == cur <= total
CanNext(cur, total) == cur < total
CanPrev_OffByOne(cur) == cur >= 1
CanPrev(cur) == cur > 1

\* The position that play s-e / play m leaves after a successful render.
PositionAfterPlay(e) == e

\* One player.play(corrected_data, hands, tempo_override, measure_range) call.
RenderCall(s, e, r) ==
    [range |-> <<s, e>>, hands |-> current_hands, tempo |-> current_tempo, result |-> r]

\* One library.update_preference(key, value, user) call.
WriteCall(key, value, user, r) ==
    [key |-> key, value |-> value, user |-> user, result |-> r]

\* input() returns `line`, or raises EOFError (EofLine) when stdin is exhausted.
EofLine == <<"EOF">>

Reads(line) ==
    /\ \/ stdin.free
       \/ IF line = EofLine THEN nread = Len(stdin.lines)
          ELSE nread < Len(stdin.lines) /\ stdin.lines[nread + 1] = line
    /\ nread' = IF stdin.free \/ line = EofLine THEN nread ELSE nread + 1
    /\ stdin' = stdin

\* The state after one iteration of the loop that read `line`.
Iteration(line, nextpc, m, t, h, p, message, rs, ws) ==
    /\ Reads(line)
    /\ pc' = nextpc
    /\ current_measure' = m
    /\ current_tempo' = t
    /\ current_hands' = h
    /\ prefs' = p
    /\ msg' = message
    /\ renders' = rs
    /\ writes' = ws
    /\ lastLine' = line
    /\ before' = Snapshot(current_measure, current_tempo, current_hands, prefs)
    /\ UNCHANGED <<args_tempo, args_hand, measures_len, total_measures>>
    /\ UNCHANGED wfvars

\* An iteration that changes no session state (preceded by a variant that
\* returns to the first measure).
Report_Rewinding(line, message) ==
    Iteration(line, "session", 1, current_tempo, current_hands, prefs,
              message, <<>>, <<>>)
Report(line, message) ==
    Iteration(line, "session", current_measure, current_tempo, current_hands, prefs,
              message, <<>>, <<>>)

CmdExit ==
    \E line \in ExitLines :
        /\ pc = "session"
        /\ Iteration(line, "exited", current_measure, current_tempo, current_hands,
                     prefs, "", <<>>, <<>>)

\* play s-e and play m: a render inside try/except.
PlayTried(line, s, e, message) ==
    \E r \in RenderOutcomes :
        IF r = "ok"
        THEN Iteration(line, "session", PositionAfterPlay(e), current_tempo,
                       current_hands, prefs, "", <<RenderCall(s, e, r)>>, <<>>)
        ELSE Iteration(line, "session", current_measure, current_tempo,
                       current_hands, prefs, message, <<RenderCall(s, e, r)>>, <<>>)

\* A render outside any try: an exception leaves the loop.
RenderUncaught(line, m) ==
    \E r \in RenderOutcomes :
        Iteration(line, IF r = "ok" THEN "session" ELSE "crashed", m, current_tempo,
                  current_hands, prefs, "", <<RenderCall(m, m, r)>>, <<>>)

CmdPlay ==
    \E line \in PlayCmdLines :
        /\ pc = "session"
        /\ LET parts == Parts[line]
           IN IF Len(parts) > 1
              THEN IF Contains(parts[2], "-")
                   THEN LET rg == PlayRange(parts[2])
                        IN IF rg.ok THEN PlayTried(line, rg.s, rg.e, "Invalid range.")
                           ELSE Report(line, "Invalid range.")
                   ELSE LET m == ParseInt(parts[2])
                        IN IF m.ok
                           THEN PlayTried(line, m.val, m.val, "Invalid measure number.")
                           ELSE Report(line, "Invalid measure number.")
              ELSE \E r \in RenderOutcomes :
                       Iteration(line, IF r = "ok" THEN "session" ELSE "crashed",
                                 current_measure, current_tempo, current_hands, prefs, "",
                                 <<RenderCall(current_measure, total_measures, r)>>, <<>>)

CmdNext ==
    \E line \in NextLines :
        /\ pc = "session"
        /\ IF CanNext(current_measure, total_measures)
           THEN RenderUncaught(line, current_measure + 1)
           ELSE Report(line, "End of piece.")

CmdPrev ==
    \E line \in PrevLines :
        /\ pc = "session"
        /\ IF CanPrev(current_measure)
           THEN RenderUncaught(line, current_measure - 1)
           ELSE Report(line, "Already at start.")

\* The keys the tempo and hand commands write.
TempoKey == "tempo"
HandKey == "hand"

\* The selections the hand command accepts, and current_hands for each.
HandName(h) ==
    CASE h = LEFT -> "left"
      [] h = RIGHT -> "right"
      [] h = BOTH -> "both"
      [] OTHER -> "?"

HandsOf(name) == IF name = "both" THEN <<"left", "right">> ELSE <<name>>

CmdTempo ==
    \E line \in TempoCmdLines :
        /\ pc = "session"
        /\ LET parts == Parts[line]
           IN IF Len(parts) > 1 /\ ParseInt(parts[2]).ok
              THEN LET v == IntV(ParseInt(parts[2]).val)
                   IN \E r \in StoreOutcomes :
                          IF r = "ok"
                          THEN Iteration(line, "session", current_measure, v, current_hands,
                                         UpdatePreference(prefs, TempoKey, v, user_id),
                                         "Tempo set", <<>>,
                                         <<WriteCall(TempoKey, v, user_id, r)>>)
                          ELSE Iteration(line, "session", current_measure, v, current_hands,
                                         prefs, "Invalid tempo.", <<>>,
                                         <<WriteCall(TempoKey, v, user_id, r)>>)
              ELSE Report(line, "Invalid tempo.")

CmdHand ==
    \E line \in HandCmdLines :
        /\ pc = "session"
        /\ LET parts == Parts[line]
           IN IF Len(parts) < 2
              THEN \* cmd.split()[1] raises IndexError
                   Iteration(line, "crashed", current_measure, current_tempo,
                             current_hands, prefs, "", <<>>, <<>>)
              ELSE IF parts[2] \in {LEFT, RIGHT, BOTH}
                   THEN LET h == HandName(parts[2])
                        IN \E r \in StoreOutcomes :
                               IF r = "ok"
                               THEN Iteration(line, "session", current_measure,
                                              current_tempo, HandsOf(h),
                                              UpdatePreference(prefs, HandKey, StrV(h), user_id),
                                              "Hand set", <<>>,
                                              <<WriteCall(HandKey, StrV(h), user_id, r)>>)
                               ELSE Iteration(line, "crashed", current_measure,
                                              current_tempo, HandsOf(h), prefs, "", <<>>,
                                              <<WriteCall(HandKey, StrV(h), user_id, r)>>)
                   ELSE Report(line, "Invalid hand.")

CmdUnknown ==
    \E line \in UnknownLines :
        /\ pc = "session"
        /\ Report(line, "Unknown command.")

\* input() raises EOFError when the input stream is closed; nothing catches it.
EndOfInput ==
    /\ pc = "session"
    /\ Iteration(EofLine, "crashed", current_measure, current_tempo, current_hands,
                 prefs, "", <<>>, <<>>)

Next ==
    \/ InitPlayback
    \/ CmdExit
    \/ CmdPlay
    \/ CmdNext
    \/ CmdPrev
    \/ CmdTempo
    \/ CmdHand
    \/ CmdUnknown
    \/ EndOfInput

Spec == Init /\ [][Next]_vars

----------------------------------------------------------------------------
(* The last iteration, as the properties below read it.                    *)

\* The command of the last iteration, its branch and its words.
cmd == Normalize(lastLine)
Acted(branch) == pc # "start" /\ lastLine \in Lines /\ Dispatch(cmd) = branch
Words == Split(cmd)

Min(a, b) == IF a < b THEN a ELSE b
Max(a, b) == IF a > b THEN a ELSE b

SessionUnchanged ==
    /\ current_measure = before.measure
    /\ current_tempo = before.tempo
    /\ current_hands = before.hands

\* The range (s, e) of a play command that names one: play s-e, or play m as (m, m).
HasRange ==
    /\ Acted("play")
    /\ Len(Words) > 1
    /\ IF Contains(Words[2], "-") THEN PlayRange(Words[2]).ok ELSE ParseInt(Words[2]).ok
RangeStart ==
    IF Contains(Words[2], "-") THEN PlayRange(Words[2]).s ELSE ParseInt(Words[2]).val
RangeEnd ==
    IF Contains(Words[2], "-") THEN PlayRange(Words[2]).e ELSE ParseInt(Words[2]).val

Rendered == \E i \in 1..Len(renders) : renders[i].result = "ok"

----------------------------------------------------------------------------
(* C1: in the session, after any sequence of commands, current_measure    *)
(* is within 1..total_measures.                                            *)
C1_PositionInRange ==
    pc # "start" => current_measure \in 1..total_measures

(* C2: a play command with a reversed range (start > end) reports an      *)
(* error, makes no successful position update, leaves current_measure     *)
(* unchanged, and the session continues.                                   *)
C2_ReversedRangeRejected ==
    (HasRange /\ RangeStart > RangeEnd) =>
        /\ msg # ""
        /\ current_measure = before.measure
        /\ pc = "session"

(* C3: a play command with a range start <= end is not rejected for being *)
(* out of bounds, renders the range clamped to 1..total_measures, and on  *)
(* success leaves current_measure at the clamped end.                      *)
C3_RangeClamped ==
    (HasRange /\ RangeStart <= RangeEnd) =>
        /\ Len(renders) = 1
        /\ renders[1].range = <<Max(RangeStart, 1), Min(RangeEnd, total_measures)>>
        /\ Rendered => current_measure = Min(RangeEnd, total_measures)

(* C4: play without a range renders current_measure..total_measures and,  *)
(* on success, leaves current_measure at total_measures.                   *)
C4_PlayAllAdvances ==
    (Acted("play") /\ Len(Words) = 1 /\ Words[1] = PLAY) =>
        /\ Len(renders) = 1
        /\ renders[1].range = <<before.measure, total_measures>>
        /\ Rendered => current_measure = total_measures

(* C5: next below the last measure moves the position up by exactly one   *)
(* and renders exactly that measure; next at the last measure reports     *)
(* end-of-piece, renders nothing and changes neither position, hands nor  *)
(* tempo.                                                                  *)
C5_Next ==
    Acted("next") =>
        /\ before.measure < total_measures =>
              /\ current_measure = before.measure + 1
              /\ Len(renders) = 1
              /\ renders[1].range = <<before.measure + 1, before.measure + 1>>
        /\ before.measure = total_measures =>
              /\ msg = "End of piece."
              /\ renders = <<>>
              /\ SessionUnchanged

C5_Witness ==
    /\ Acted("next")
    /\ before.measure < total_measures
    /\ Rendered
    /\ current_measure = before.measure + 1

(* C6: prev above measure 1 moves the position down by exactly one and    *)
(* renders exactly that measure; prev at measure 1 reports                 *)
(* already-at-start, renders nothing and changes neither position, hands  *)
(* nor tempo.                                                              *)
C6_Prev ==
    Acted("prev") =>
        /\ before.measure > 1 =>
              /\ current_measure = before.measure - 1
              /\ Len(renders) = 1
              /\ renders[1].range = <<before.measure - 1, before.measure - 1>>
        /\ before.measure = 1 =>
              /\ msg = "Already at start."
              /\ renders = <<>>
              /\ SessionUnchanged

C6_Witness ==
    /\ Acted("prev")
    /\ before.measure > 1
    /\ Rendered
    /\ current_measure = before.measure - 1

----------------------------------------------------------------------------
\* The argument of a tempo command is a positive integer.
TempoArgValid == Len(Words) > 1 /\ ParseInt(Words[2]).ok /\ ParseInt(Words[2]).val > 0

(* C7: a tempo command whose argument is not a positive integer (missing, *)
(* non-numeric, zero or negative) reports an error and leaves the session *)
(* tempo and the stored preferences unchanged; hence a tempo set by a     *)
(* command is always a positive integer.                                   *)
C7_InvalidTempoRejected ==
    /\ (Acted("tempo") /\ ~TempoArgValid) =>
          /\ msg = "Invalid tempo."
          /\ current_tempo = before.tempo
          /\ prefs = before.prefs
    /\ current_tempo.t = "int" => current_tempo.n > 0

(* C8: a valid "tempo bpm" sets the session tempo to bpm and stores       *)
(* default_tempo = bpm for the session's user; so once a tempo command    *)
(* has succeeded, the stored default_tempo equals the session tempo.      *)
C8_TempoPersisted ==
    /\ (Acted("tempo") /\ Words[1] = TEMPO /\ TempoArgValid /\ msg = "Tempo set") =>
          /\ current_tempo = IntV(ParseInt(Words[2]).val)
          /\ prefs[user_id]["default_tempo"] = IntV(ParseInt(Words[2]).val)
    /\ (pc # "start" /\ current_tempo.t = "int" /\ current_tempo.n > 0
          /\ \A i \in 1..Len(writes) : writes[i].result = "ok") =>
          prefs[user_id]["default_tempo"] = current_tempo

\* The stored preferences of the session's user hold the value under some key.
Persisted(v) == \E k \in PrefKeys : prefs[user_id][k] = v

(* C9: hand left / right / both sets hands to {left} / {right} /          *)
(* {left, right} and stores the selection for the user (when the store    *)
(* accepts the write); any other or missing selection is rejected with a  *)
(* message and changes neither hands nor the stored preferences; hands is *)
(* a non-empty subset of {left, right} in every session state.            *)
C9_Hand ==
    /\ (Acted("hand") /\ Len(Words) > 1 /\ Words[2] \in {LEFT, RIGHT, BOTH}) =>
          /\ current_hands = HandsOf(HandName(Words[2]))
          /\ (\A i \in 1..Len(writes) : writes[i].result = "ok") =>
                 Persisted(StrV(HandName(Words[2])))
    /\ (Acted("hand") /\ ~(Len(Words) > 1 /\ Words[2] \in {LEFT, RIGHT, BOTH})) =>
          /\ msg # ""
          /\ current_hands = before.hands
          /\ prefs = before.prefs
    /\ pc # "start" =>
          /\ current_hands # <<>>
          /\ \A i \in 1..Len(current_hands) : current_hands[i] \in {"left", "right"}

\* The line is one of: exit, play [n | s-e], next, prev, tempo <bpm>, hand <sel>.
Recognized(c) ==
    LET w == Split(c)
    IN /\ w # <<>>
       /\ w[1] \in {EXIT, PLAY, NEXT, PREV, TEMPO, HAND}
       /\ w[1] \in {EXIT, NEXT, PREV} => Len(w) = 1
       /\ w[1] = PLAY => Len(w) <= 2
       /\ w[1] \in {TEMPO, HAND} => Len(w) = 2

(* C10: a line that is not a recognized command (also one that merely     *)
(* begins with a command name: playx, temporary 90, handle) is reported   *)
(* as unknown command, makes no render call and no preference write, and  *)
(* leaves position, hands and tempo unchanged.                             *)
C10_UnknownIsNoOp ==
    (pc # "start" /\ lastLine \in Lines /\ ~Recognized(cmd)) =>
        /\ msg = "Unknown command."
        /\ renders = <<>>
        /\ writes = <<>>
        /\ SessionUnchanged

----------------------------------------------------------------------------
RenderFailed == \E i \in 1..Len(renders) : renders[i].result = "raise"

(* C11: the command loop ends only by an exit command or by end of input: *)
(* no command text, invalid input, renderer failure or preference-store   *)
(* failure ends it.                                                        *)
C11_LoopEndsOnlyByExitOrEof ==
    pc \in {"exited", "crashed"} => (Acted("exit") \/ lastLine = EofLine)

(* C12: when the renderer fails during play, play n, play s-e, next or    *)
(* prev, the position, hands and tempo after the command equal those      *)
(* before it.                                                              *)
C12_RenderFailureKeepsState ==
    (pc # "start" /\ lastLine \in Lines /\ RenderFailed) => SessionUnchanged

(* C20: for a score without measures total_measures is 1 and the session  *)
(* starts at position 1, where next reports end-of-piece and prev reports *)
(* already-at-start, both without rendering or moving.                     *)
C20_EmptyScore ==
    (pc \in {"session", "exited", "crashed"} /\ measures_len = 0) =>
        /\ total_measures = 1
        /\ lastLine = NoLine => current_measure = 1
        /\ (Acted("next") /\ before.measure = 1) =>
              /\ msg = "End of piece."
              /\ renders = <<>>
              /\ current_measure = 1
        /\ (Acted("prev") /\ before.measure = 1) =>
              /\ msg = "Already at start."
              /\ renders = <<>>
              /\ current_measure = 1

C20_Witness ==
    /\ measures_len = 0
    /\ Acted("next")
    /\ before.measure = 1
    /\ msg = "End of piece."
    /\ current_measure = 1

----------------------------------------------------------------------------
(* Sessions fed from a fixed standard input.                               *)

\* Number of lines of a scripted standard input.
ScriptLen == 4

Play23 == PLAY \o SP \o <<"2", "-", "3">>
Tempo90 == TEMPO \o SP \o <<"9", "0">>
ScriptLines == {Play23, NEXT, PREV, Tempo90}

InitScripted ==
    /\ pc = "start"
    /\ args_tempo = None
    /\ args_hand = StrV("both")
    /\ measures_len \in 1..MaxMeasures
    /\ \E mine \in {NewUserPrefs, ReturningUserPrefs} :
           prefs = [u \in Users |-> IF u = user_id THEN mine ELSE OtherUserPrefs]
    /\ current_measure = 0
    /\ total_measures = 0
    /\ current_tempo = None
    /\ current_hands = <<>>
    /\ lastLine = NoLine
    /\ msg = ""
    /\ renders = <<>>
    /\ writes = <<>>
    /\ before = Snapshot(0, None, <<>>, prefs)
    /\ \E lines \in [1..ScriptLen -> ScriptLines] : stdin = Script(lines)
    /\ nread = 0
    /\ LoadedUncorrected

NextScripted ==
    \/ InitPlayback
    \/ CmdPlay
    \/ CmdNext
    \/ CmdPrev
    \/ CmdTempo
    \/ EndOfInput

SpecScripted == InitScripted /\ [][NextScripted]_vars

\* The scenario: 3 measures and the input play 2-3, next, prev, tempo 90.
InScenario ==
    /\ pc # "start"
    /\ total_measures = 3
    /\ stdin = Script(<<Play23, NEXT, PREV, Tempo90>>)
    /\ lastLine \in Lines

WritesOk == \A i \in 1..Len(writes) : writes[i].result = "ok"

(* C16: with 3 measures and the session at position 1, the commands       *)
(* play 2-3, next, prev, tempo 90 give in turn: position 3; end-of-piece  *)
(* with position still 3; measure 2 rendered and position 2; and          *)
(* default_tempo = 90 stored for the session's user.                       *)
C16_Scenario ==
    InScenario =>
        /\ (nread = 1 /\ before.measure = 1 /\ Rendered) => current_measure = 3
        /\ (nread = 2 /\ before.measure = 3) =>
              msg = "End of piece." /\ current_measure = 3
        /\ (nread = 3 /\ before.measure = 3 /\ Rendered) =>
              renders[1].range = <<2, 2>> /\ current_measure = 2
        /\ (nread = 4 /\ WritesOk /\ msg = "Tempo set") =>
              prefs[user_id]["default_tempo"] = IntV(90)

----------------------------------------------------------------------------
(* The workflow before playback (main.py 255-303), run after run.          *)

\* Largest number of runs of the program.
MaxRuns == 2

\* extractor.extract(...) returns a score, or a failure value.
ExtractorScores == {Score(120, n) : n \in {0, MaxMeasures}}
ExtractorResults == ExtractorScores \cup {NoScore}

\* corrector.review_and_correct(...) returns the score as it was, or with
\* another tempo, or with another number of measures.
Corrected(md) ==
    {md, [md EXCEPT !.tempo = 140], [md EXCEPT !.measures = (md.measures + 1) % (MaxMeasures + 1)]}

\* library.get_cached_data(file_path) and library.save_to_library(file_path, ...).
Lookup(lib, f) == lib[f]
Put(lib, f, sc) == [lib EXCEPT ![f] = sc]

\* extractor.learn_from_correction(...): a changed tempo becomes the user's default_tempo.
LearnFromCorrection(p, md, cd, user) ==
    IF cd.tempo # md.tempo
    THEN UpdatePreference(p, "default_tempo", IntV(cd.tempo), user) ELSE p

\* library.record_correction_pattern(...): one more record in the correction log.
RecordCorrection(log, md, cd, user) ==
    Append(log, [user |-> user, original |-> md, corrected |-> cd])

\* `if not music_data` after the lookup, and after the extraction.
NeedsExtraction_Always(md) == TRUE
NeedsExtraction_Never(md) == FALSE
NeedsExtraction(md) == ~md.present
ExtractionFailed_Never(md) == FALSE
ExtractionFailed(md) == ~md.present

\* `if corrected_data != music_data` (equality of the nested values).
CorrectionOccurred_Always(md, cd) == TRUE
CorrectionOccurred_Never(md, cd) == FALSE
CorrectionOccurred(md, cd) == cd # md

\* The playback and input variables of a run that has not reached playback.
NoPlayback ==
    /\ measures_len' = 0
    /\ current_measure' = 0
    /\ total_measures' = 0
    /\ current_tempo' = None
    /\ current_hands' = <<>>
    /\ lastLine' = NoLine
    /\ msg' = ""
    /\ renders' = <<>>
    /\ writes' = <<>>
    /\ before' = Snapshot(0, None, <<>>, prefs)
    /\ stdin' = FreeInput
    /\ nread' = 0

Ended == pc \in {"idle", "failed", "exited", "crashed", "chat_done"}

sessionvars == <<args_tempo, args_hand, measures_len, current_measure, total_measures,
                 current_tempo, current_hands, lastLine, msg, renders, writes, before,
                 stdin, nread>>

\* main(): a run with a file_path goes to the extraction workflow (main.py 461-463).
StartRun ==
    /\ Ended
    /\ runs < MaxRuns
    /\ runs' = runs + 1
    /\ pc' = "lookup"
    /\ file_path' \in Files
    /\ args_tempo' \in {None, NumStr(100)}
    /\ args_hand' \in {StrV("both"), StrV("left")}
    /\ music_data' = NoScore
    /\ corrected_data' = NoScore
    /\ wf_calls' = <<>>
    /\ at_start' = RunStart(library, prefs, corrections)
    /\ NoPlayback
    /\ UNCHANGED <<library, prefs, extractions, corrections>>

\* Check Library (main.py 271-274, 285-286).
CheckLibrary ==
    /\ pc = "lookup"
    /\ music_data' = Lookup(library, file_path)
    /\ wf_calls' = Append(wf_calls, "get_cached_data")
    /\ pc' = IF NeedsExtraction(music_data') THEN "extract" ELSE "correct"
    /\ msg' = IF NeedsExtraction(music_data') THEN "Extracting" ELSE "Loaded from library."
    /\ UNCHANGED <<file_path, library, corrected_data, runs, extractions, corrections,
                   at_start, prefs, args_tempo, args_hand, measures_len, current_measure,
                   total_measures, current_tempo, current_hands, lastLine, renders,
                   writes, before, stdin, nread>>

\* Extraction and save (main.py 275-284).
Extract ==
    /\ pc = "extract"
    /\ \E out \in ExtractorResults :
           /\ music_data' = out
           /\ extractions' =
                  [extractions EXCEPT ![file_path] =
                       [calls |-> @.calls + 1, ok |-> @.ok + (IF out.present THEN 1 ELSE 0)]]
           /\ IF ExtractionFailed(out)
              THEN /\ msg' = "Failed to extract music data."
                   /\ pc' = "failed"
                   /\ wf_calls' = Append(wf_calls, "extract")
                   /\ library' = library
              ELSE /\ msg' = "Extraction complete."
                   /\ pc' = "correct"
                   /\ wf_calls' = wf_calls \o <<"extract", "save_to_library">>
                   /\ library' = Put(library, file_path, out)
    /\ UNCHANGED <<file_path, corrected_data, runs, corrections, at_start, prefs,
                   args_tempo, args_hand, measures_len, current_measure, total_measures,
                   current_tempo, current_hands, lastLine, renders, writes, before,
                   stdin, nread>>

\* Human-in-the-loop correction (main.py 290-291).
Correct ==
    /\ pc = "correct"
    /\ corrected_data' \in Corrected(music_data)
    /\ wf_calls' = Append(wf_calls, "review_and_correct")
    /\ pc' = "learn"
    /\ UNCHANGED <<file_path, library, music_data, runs, extractions, corrections,
                   at_start, prefs>>
    /\ UNCHANGED sessionvars

\* Learn from corrections (main.py 293-298); playback then reads the corrected score.
Learn ==
    /\ pc = "learn"
    /\ IF CorrectionOccurred(music_data, corrected_data)
       THEN /\ prefs' = LearnFromCorrection(prefs, music_data, corrected_data, user_id)
            /\ corrections' = RecordCorrection(corrections, music_data, corrected_data, user_id)
            /\ wf_calls' = wf_calls \o <<"learn_from_correction", "record_correction_pattern">>
       ELSE UNCHANGED <<prefs, corrections, wf_calls>>
    /\ measures_len' = corrected_data.measures
    /\ msg' = "Correction complete."
    /\ pc' = "start"
    /\ UNCHANGED <<file_path, library, music_data, corrected_data, runs, extractions,
                   at_start, args_tempo, args_hand, current_measure, total_measures,
                   current_tempo, current_hands, lastLine, renders, writes, before,
                   stdin, nread>>

----------------------------------------------------------------------------
(* The assistant's chat loop (run_music_assistant, main.py 98-155).        *)

QUIT == <<"q", "u", "i", "t">>

ChatLines ==
    { EXIT, QUIT,
      <<"Q", "u", "i", "t">>,                 \* Quit
      SP \o EXIT,                             \* " exit" (the loop does not strip)
      <<"h", "i">> }                          \* hi

\* user_input.lower() in ['exit', 'quit']
IsChatExit(line) == LowerStr(line) \in {EXIT, QUIT}

\* The events at input() other than a line: Ctrl-C.
InterruptLine == <<"^C">>

\* runner.run_async(...) either completes or raises.
RunnerOutcomes == {"ok", "raise"}

\* One pass through the body of the chat loop.
ChatStep(line, nextpc, message) ==
    /\ pc = "chat"
    /\ pc' = nextpc
    /\ lastLine' = line
    /\ msg' = message
    /\ UNCHANGED <<args_tempo, args_hand, measures_len, prefs, current_measure,
                   total_measures, current_tempo, current_hands, renders, writes, before>>
    /\ UNCHANGED wfvars

\* main(): a run without a file_path goes to the assistant; with --interactive
\* it enters the chat loop (main.py 464-466, 91-98).
StartAssistant ==
    /\ Ended
    /\ runs < MaxRuns
    /\ runs' = runs + 1
    /\ pc' = "chat"
    /\ file_path' = ""
    /\ music_data' = NoScore
    /\ corrected_data' = NoScore
    /\ wf_calls' = <<>>
    /\ at_start' = RunStart(library, prefs, corrections)
    /\ NoPlayback
    /\ UNCHANGED <<args_tempo, args_hand, library, prefs, extractions, corrections>>

\* exit / quit: break.
ChatQuit ==
    \E line \in ChatLines :
        /\ IsChatExit(line)
        /\ Reads(line)
        /\ ChatStep(line, "chat_done", "")

\* Any other line goes to the runner; `except Exception` prints its error and the
\* loop goes on.
ChatTurn ==
    \E line \in ChatLines, r \in RunnerOutcomes :
        /\ ~IsChatExit(line)
        /\ Reads(line)
        /\ ChatStep(line, "chat", IF r = "ok" THEN "Assistant >" ELSE "Error")

\* KeyboardInterrupt: break.
ChatInterrupt ==
    /\ ChatStep(InterruptLine, "chat_done", "")
    /\ UNCHANGED <<stdin, nread>>

\* input() raises EOFError on a closed standard input; `except Exception` catches
\* it, prints the error, and the loop calls input() again.
ChatEndOfInput ==
    /\ stdin.free \/ nread = Len(stdin.lines)
    /\ stdin' = IF stdin.free THEN Script(<<>>) ELSE stdin
    /\ nread' = nread
    /\ ChatStep(EofLine, "chat", "Error")

----------------------------------------------------------------------------
InitWorkflow ==
    /\ pc = "idle"
    /\ runs = 0
    /\ args_tempo = None
    /\ args_hand = StrV("both")
    /\ measures_len = 0
    /\ \E mine \in {NewUserPrefs, ReturningUserPrefs} :
           prefs = [u \in Users |-> IF u = user_id THEN mine ELSE OtherUserPrefs]
    /\ current_measure = 0
    /\ total_measures = 0
    /\ current_tempo = None
    /\ current_hands = <<>>
    /\ lastLine = NoLine
    /\ msg = ""
    /\ renders = <<>>
    /\ writes = <<>>
    /\ before = Snapshot(0, None, <<>>, prefs)
    /\ stdin = FreeInput
    /\ nread = 0
    /\ file_path = ""
    /\ library = [f \in Files |-> NoScore]
    /\ music_data = NoScore
    /\ corrected_data = NoScore
    /\ wf_calls = <<>>
    /\ extractions = [f \in Files |-> [calls |-> 0, ok |-> 0]]
    /\ corrections = <<>>
    /\ at_start = RunStart(library, prefs, <<>>)

NextWorkflow ==
    \/ StartRun
    \/ CheckLibrary
    \/ Extract
    \/ Correct
    \/ Learn
    \/ InitPlayback
    \/ CmdExit
    \/ EndOfInput
    \/ StartAssistant
    \/ ChatQuit
    \/ ChatTurn
    \/ ChatInterrupt
    \/ ChatEndOfInput

SpecWorkflow == InitWorkflow /\ [][NextWorkflow]_vars

\* The program's own steps at the prompts of the two loops once nothing but the
\* end of input can arrive; Ctrl-C and new runs are the user's.
SpecWorkflowLive ==
    SpecWorkflow /\ WF_vars(EndOfInput) /\ WF_vars(ChatEndOfInput)

----------------------------------------------------------------------------
(* Properties of the extraction workflow.                                  *)

\* The current run is a workflow run (it has a file_path).
WorkflowRun == file_path \in Files

\* The lookup of this run found the score in the library.
Hit == at_start.library[file_path].present

Called(name) == \E i \in DOMAIN wf_calls : wf_calls[i] = name

\* Every call of b in this run comes after a call of a.
CalledBefore(a, b) ==
    \A j \in DOMAIN wf_calls :
        wf_calls[j] = b => \E i \in 1..(j - 1) : wf_calls[i] = a

PastExtraction == WorkflowRun /\ pc \notin {"lookup", "extract"}
PastLearning == WorkflowRun /\ pc = "start"

\* C19: when the extractor reports failure on a cache miss, the run writes
\* nothing to the library, runs no correction, no learning and no preference
\* update, starts no playback session, and ends with "Failed to extract music data.".
C19_FailedExtraction ==
    (WorkflowRun /\ Called("extract") /\ ~music_data.present) =>
        /\ pc = "failed"
        /\ msg = "Failed to extract music data."
        /\ library = at_start.library
        /\ prefs = at_start.prefs
        /\ corrections = at_start.corrections
        /\ corrected_data = NoScore
        /\ ~Called("save_to_library")
        /\ ~Called("review_and_correct")
        /\ ~Called("learn_from_correction")
        /\ ~Called("record_correction_pattern")
        /\ total_measures = 0 /\ current_tempo = None /\ renders = <<>>

C19_Witness ==
    /\ WorkflowRun
    /\ pc = "failed"
    /\ ~Hit
    /\ wf_calls = <<"get_cached_data", "extract">>

\* C14: when the corrected score equals the original, the run calls neither
\* learn_from_correction nor record_correction_pattern, the correction log and
\* the preferences are as they were at the start of the run; the two calls
\* happen only when the corrected score differs from the original.
C14_NoLearningOnEqual ==
    PastLearning =>
        /\ corrected_data = music_data =>
               /\ ~Called("learn_from_correction")
               /\ ~Called("record_correction_pattern")
               /\ corrections = at_start.corrections
               /\ prefs = at_start.prefs
        /\ (Called("learn_from_correction") \/ Called("record_correction_pattern")
            \/ corrections # at_start.corrections \/ prefs # at_start.prefs)
               => corrected_data # music_data

C14_Witness ==
    /\ PastLearning
    /\ music_data.present
    /\ corrected_data = music_data
    /\ Called("review_and_correct")

\* C15: when the corrected score's tempo differs from the original's, after
\* the learning step the user's default_tempo preference is the corrected tempo.
C15_TempoLearned ==
    (PastLearning /\ corrected_data.tempo # music_data.tempo) =>
        GetUserPreferences(prefs, user_id)["default_tempo"] = IntV(corrected_data.tempo)

C15_Witness ==
    /\ PastLearning
    /\ music_data.tempo = 120
    /\ corrected_data.tempo = 140
    /\ Called("learn_from_correction")

\* C18: a library entry is never overwritten by a correction: a run writes the
\* library only on a miss and only with the extractor's output; on a hit the
\* library is unchanged, and the corrected score is never what is stored under
\* the file.
C18_LibraryNotOverwritten ==
    WorkflowRun =>
        /\ Hit => (library = at_start.library /\ ~Called("save_to_library"))
        /\ \/ library = at_start.library
           \/ /\ ~Hit
              /\ Called("extract")
              /\ music_data \in ExtractorScores
              /\ library = Put(at_start.library, file_path, music_data)
        /\ (PastLearning /\ corrected_data # music_data) =>
               /\ library[file_path] # corrected_data
               /\ library[file_path] = music_data

C18_Witness ==
    /\ PastLearning
    /\ Hit
    /\ corrected_data # music_data
    /\ Called("record_correction_pattern")

\* C13 (as stated): over any sequence of runs the extractor is invoked at most
\* once per file.
C13_ExtractorAtMostOnce ==
    \A f \in Files : extractions[f].calls <= 1

\* C13 (amended): the extractor is invoked in a run if and only if the lookup
\* missed; a successful extraction is saved under the file before the correction
\* step; and over any sequence of runs the extractor succeeds at most once per
\* file, after which the library holds the score (a failed extraction is tried
\* again by the next run).
C13_ExtractOnMissSavedOnce ==
    /\ WorkflowRun =>
           /\ pc = "extract" => ~Hit
           /\ PastExtraction => (Called("extract") <=> ~Hit)
           /\ (PastExtraction /\ Called("extract") /\ music_data.present) =>
                  /\ Called("save_to_library")
                  /\ CalledBefore("save_to_library", "review_and_correct")
                  /\ library[file_path] = music_data
    /\ \A f \in Files :
           /\ extractions[f].ok <= 1
           /\ extractions[f].ok = 1 => library[f].present

C13_Witness ==
    /\ PastLearning
    /\ Hit
    /\ runs = MaxRuns
    /\ extractions[file_path] = [calls |-> 1, ok |-> 1]

\* C17: once the input is closed, each interactive loop eventually stops as a
\* normal termination.
C17_EndOfInputStopsNormally ==
    (lastLine = EofLine) ~> (pc \in {"exited", "chat_done"})

----------------------------------------------------------------------------
(* From the correction step to the first prompt, over every combination of *)
(* command-line arguments and stored preferences (main.py 290-338).        *)

\* What the store may hold for the user: each of default_tempo and
\* preferred_hand absent or present.
StoredPrefs ==
    { [NoPrefs EXCEPT !["default_tempo"] = t, !["preferred_hand"] = h] :
          t \in {None, IntV(80)},
          h \in {None, StrV("left"), StrV("right"), StrV("both")} }

\* --tempo absent or given, --hand one of its three choices (default both).
ArgTempos == {None, NumStr(100)}
ArgHands == {StrV("left"), StrV("right"), StrV("both")}

InitSessionInit ==
    LET sc == Score(120, MaxMeasures)
        lib == [f \in Files |-> IF f = "a.png" THEN sc ELSE NoScore]
    IN /\ pc = "correct"
       /\ args_tempo \in ArgTempos
       /\ args_hand \in ArgHands
       /\ measures_len = 0
       /\ \E mine \in StoredPrefs :
              prefs = [u \in Users |-> IF u = user_id THEN mine ELSE OtherUserPrefs]
       /\ current_measure = 0
       /\ total_measures = 0
       /\ current_tempo = None
       /\ current_hands = <<>>
       /\ lastLine = NoLine
       /\ msg = "Loaded from library."
       /\ renders = <<>>
       /\ writes = <<>>
       /\ before = Snapshot(0, None, <<>>, prefs)
       /\ stdin = FreeInput
       /\ nread = 0
       /\ file_path = "a.png"
       /\ library = lib
       /\ music_data = sc
       /\ corrected_data = NoScore
       /\ wf_calls = <<"get_cached_data">>
       /\ runs = 1
       /\ extractions = [f \in Files |-> [calls |-> 0, ok |-> 0]]
       /\ corrections = <<>>
       /\ at_start = RunStart(lib, prefs, <<>>)

NextSessionInit ==
    \/ Correct
    \/ Learn
    \/ InitPlayback
    \/ CmdExit

SpecSessionInit == InitSessionInit /\ [][NextSessionInit]_vars

\* C21: playback is initialised after the correction and learning steps, from
\* the preferences as learning left them: the tempo is the command-line tempo if
\* given, otherwise the stored default_tempo (as a decimal string, the form of a
\* command-line tempo) if present, otherwise unset; the hands are the
\* command-line hand if it is left or right, otherwise the stored
\* preferred_hand, and left and right together when none is stored.
C21_SessionInit ==
    [][(pc = "start" /\ pc' = "session") =>
          LET stored == GetUserPreferences(prefs, user_id)
          IN /\ Called("review_and_correct")
             /\ corrected_data # music_data => Called("learn_from_correction")
             /\ (args_tempo = None /\ corrected_data.tempo # music_data.tempo) =>
                    current_tempo' = NumStr(corrected_data.tempo)
             /\ current_tempo' =
                    IF args_tempo # None THEN args_tempo
                    ELSE IF stored["default_tempo"] # None
                         THEN NumStr(stored["default_tempo"].n)
                         ELSE None
             /\ current_hands' =
                    IF args_hand \in {StrV("left"), StrV("right")} THEN <<args_hand.s>>
                    ELSE IF stored["preferred_hand"] = None THEN <<"left", "right">>
                    ELSE IF stored["preferred_hand"] = StrV("both") THEN <<"left", "right">>
                    ELSE <<stored["preferred_hand"].s>>
             /\ current_hands' # <<>>]_vars

\* A session initialised with the tempo learned in the same run and, no
\* preferred_hand being stored, with both hands.
C21_Witness ==
    /\ pc = "session"
    /\ lastLine = NoLine
    /\ Called("learn_from_correction")
    /\ corrected_data.tempo = 140
    /\ current_tempo = NumStr(140)
    /\ GetUserPreferences(prefs, user_id)["preferred_hand"] = None
    /\ current_hands = <<"left", "right">>

----------------------------------------------------------------------------
(* Properties of the command loop as a whole, under Spec.                  *)

\* C22: every render request of the session carries a measure range
\* (start, end) with 1 <= start <= end <= total_measures.
C22_RenderRangeValid ==
    pc # "start" =>
        \A i \in DOMAIN renders :
            /\ 1 <= renders[i].range[1]
            /\ renders[i].range[1] <= renders[i].range[2]
            /\ renders[i].range[2] <= total_measures

\* C24: tempo and hand commands never change current_measure and issue no
\* render call; play, next and prev never change the hands, the tempo
\* override or any stored preference, and issue no preference update.
C24_CommandsIndependent ==
    /\ (Acted("tempo") \/ Acted("hand")) =>
           /\ current_measure = before.measure
           /\ renders = <<>>
    /\ (Acted("play") \/ Acted("next") \/ Acted("prev")) =>
           /\ current_hands = before.hands
           /\ current_tempo = before.tempo
           /\ prefs = before.prefs
           /\ writes = <<>>

\* A tempo command that changed the tempo away from the first measure.
C24_Witness ==
    /\ Acted("tempo")
    /\ pc = "session"
    /\ current_measure = 2
    /\ current_tempo = IntV(90)
    /\ before.tempo # IntV(90)
    /\ Len(writes) = 1

----------------------------------------------------------------------------
(* A session that sets preferences and exits, followed by a later run for  *)
(* the same user without command-line overrides (main.py 305-316, 381-399).*)

HandLeft == HAND \o SP \o LEFT
HandBoth == HAND \o SP \o BOTH
PrefLines == {Tempo90, HandLeft, HandBoth}

\* The lines typed over the two runs: two preference commands, then exit.
PrefScripts == {<<c1, c2, EXIT>> : c1 \in PrefLines, c2 \in PrefLines}

InitReturning ==
    /\ pc = "start"
    /\ args_tempo = None
    /\ args_hand = StrV("both")
    /\ measures_len \in 1..MaxMeasures
    /\ \E mine \in {NewUserPrefs, ReturningUserPrefs} :
           prefs = [u \in Users |-> IF u = user_id THEN mine ELSE OtherUserPrefs]
    /\ current_measure = 0
    /\ total_measures = 0
    /\ current_tempo = None
    /\ current_hands = <<>>
    /\ lastLine = NoLine
    /\ msg = ""
    /\ renders = <<>>
    /\ writes = <<>>
    /\ before = Snapshot(0, None, <<>>, prefs)
    /\ \E lines \in PrefScripts : stdin = Script(lines)
    /\ nread = 0
    /\ LoadedUncorrected

\* main() again after the session was left by exit: the score is loaded from
\* the library and left uncorrected, --tempo and --hand are not given
\* (main.py 461-463, 255-298).
RunAgain ==
    /\ pc = "exited"
    /\ runs < MaxRuns
    /\ runs' = runs + 1
    /\ pc' = "start"
    /\ args_tempo' = None
    /\ args_hand' = StrV("both")
    /\ music_data' = Lookup(library, file_path)
    /\ corrected_data' = music_data'
    /\ measures_len' = music_data'.measures
    /\ wf_calls' = <<"get_cached_data", "review_and_correct">>
    /\ at_start' = RunStart(library, prefs, corrections)
    /\ current_measure' = 0
    /\ total_measures' = 0
    /\ current_tempo' = None
    /\ current_hands' = <<>>
    /\ lastLine' = NoLine
    /\ msg' = "Correction complete."
    /\ renders' = <<>>
    /\ writes' = <<>>
    /\ before' = Snapshot(0, None, <<>>, prefs)
    /\ UNCHANGED <<file_path, library, prefs, extractions, corrections, stdin, nread>>

NextReturning ==
    \/ InitPlayback
    \/ CmdTempo
    \/ CmdHand
    \/ CmdExit
    \/ RunAgain

SpecReturning == InitReturning /\ [][NextReturning]_vars

\* The last tempo / hand selection typed in the earlier session, if any.
TypedTempo ==
    IF \E i \in DOMAIN stdin.lines : stdin.lines[i] = Tempo90 THEN IntV(90) ELSE None
TypedHand ==
    LET hs == {i \in DOMAIN stdin.lines : stdin.lines[i] \in {HandLeft, HandBoth}}
    IN IF hs = {} THEN None
       ELSE LET last == CHOOSE i \in hs : \A j \in hs : j <= i
            IN StrV(HandName(Split(stdin.lines[last])[2]))

\* The later run has initialised its session.
LaterSession == pc = "session" /\ runs > 1 /\ lastLine = NoLine

\* C23: a tempo or hand that a command of the earlier session stored for the
\* user is the tempo / the hands with which the later run, started without
\* --tempo and --hand, initialises playback.
C23_PersistedReadBack ==
    LaterSession =>
        /\ (TypedTempo # None /\ Persisted(TypedTempo)) =>
               current_tempo = PyStr(TypedTempo)
        /\ (TypedHand # None /\ Persisted(TypedHand)) =>
               current_hands = HandsOf(TypedHand.s)

====
